---- MODULE Spec2Model ----
(***************************************************************************)
(* State-machine model of lib/multi.go: the ThreadSafeNucleiEngine facade. *)
(* One shared NucleiEngine is built by NewThreadSafeNucleiEngine and then  *)
(* serves concurrent calls of ExecuteNucleiWithOpts, each of which works   *)
(* on its own copy of the options, its own ephemeral objects, its own      *)
(* input provider and its own core engine / work pool.                     *)
(***************************************************************************)
EXTENDS Naturals, Sequences, FiniteSets, TLC

(* ------------------------------ bounds -------------------------------- *)

\* largest rate-limit quota an option function sets
MaxQuota == 1
\* longest list of option functions handed to the constructor
MaxOpts == 2
\* most option functions handed to one ExecuteNucleiWithOpts call
MaxCallOpts == 2
\* most templates / workflows the loader resolves for one invocation
MaxTemplates == 1
MaxWorkflows == 1
\* longest targets slice of one invocation
MaxTargets == 2
\* most GlobalResultCallback calls made on one engine
MaxCallbackCalls == 2
\* most /scans addition requests the server handles
MaxRequests == 2

(* ----------------------------- universes ------------------------------ *)

\* the goroutines calling ExecuteNucleiWithOpts on the one engine
Invocations == {"I1", "I2"}
\* target strings
Targets == {"a", "b"}

Nil == "nil"

\* a nil pointer to a struct, and an address nothing was allocated at
NilStruct == [nil |-> TRUE]

\* a nil workflow loader; one made by parsers.NewLoader is <<invocation, place>>
NoLoader == <<>>
\* address of the options value the shared engine points to (e.eng.opts)
BaseAddr == "base"
Addrs == {BaseAddr} \cup Invocations

Quotas == 0..MaxQuota
OptionsValues == [RateLimit : Quotas, RateLimitMinute : Quotas]

\* sequences over S of length at most n
RECURSIVE SeqsUpTo(_, _)
SeqsUpTo(S, n) ==
    IF n = 0 THEN {<<>>}
    ELSE LET shorter == SeqsUpTo(S, n - 1)
         IN shorter \cup {Append(s, x) : s \in {t \in shorter : Len(t) = n - 1}, x \in S}

(* ------------------------- option functions --------------------------- *)

\* The NucleiSDKOptions values a caller can pass: func(e *NucleiEngine) error.
\*   rate / minute : set e.opts.RateLimit / e.opts.RateLimitMinute, return nil
\*   fail          : return an error, change nothing
\*   global        : a non-thread-safe option: rejects an engine in threadSafe
\*                   mode, otherwise succeeds
OptionFns ==
    {[kind |-> "rate", v |-> q] : q \in 1..MaxQuota}
    \cup {[kind |-> "minute", v |-> q] : q \in 1..MaxQuota}
    \cup {[kind |-> "fail", v |-> 0], [kind |-> "global", v |-> 0]}

\* the error option f returns on an engine of the given mode
OptionErr(f, mode) ==
    IF f.kind = "fail" THEN "ErrOption"
    ELSE IF f.kind = "global" /\ mode = "threadSafe" THEN "ErrOptionsNotSupported"
    ELSE Nil

\* the options value the engine's opts pointer refers to after option f ran
OptionEffect(f, mode, o) ==
    IF OptionErr(f, mode) # Nil THEN o
    ELSE IF f.kind = "rate" THEN [o EXCEPT !.RateLimit = f.v]
    ELSE IF f.kind = "minute" THEN [o EXCEPT !.RateLimitMinute = f.v]
    ELSE o

(* ------------------------------ state --------------------------------- *)

VARIABLES
    ctor,       \* frame of NewThreadSafeNucleiEngine: pc, opts, k, applied, initRan, retEng, retErr
    eng,        \* the NucleiEngine e built by the constructor (the Shared Engine Context)
    optsHeap,   \* address -> types.Options value (NilStruct: nothing allocated there)
    inv,        \* invocation -> frame of its ExecuteNucleiWithOpts call
    output,     \* records written to the shared output writer / result callbacks
    cbArgs,     \* the callbacks passed to GlobalResultCallback so far, in call order
    srv         \* the handlers' Server: rows of the scans table, scan queue, requests handled

vars == <<ctor, eng, optsHeap, inv, output, cbArgs, srv>>

\* a Server with an empty scans table that has handled no request
NewServer == [rows |-> <<>>, queue |-> <<>>, handled |-> <<>>]

\* the engine literal of lines 67-70: default options, mode threadSafe, all else zero
NewEngineMode == "threadSafe"

\* a nil *core.Engine; an engine made by core.New is <<allocating frame, place>>
NoEngine == <<>>

EngineLiteral ==
    [opts |-> BaseAddr, mode |-> NewEngineMode, engine |-> NoEngine,
     catalog |-> Nil, customWriter |-> Nil, customProgress |-> Nil,
     interactshClient |-> Nil, hostErrCache |-> Nil, rc |-> Nil,
     rateLimiter |-> Nil, resultCallbacks |-> <<>>]

\* e.init(): sets up the shared handles of the engine
InitEngine(e) ==
    [e EXCEPT !.catalog = "catalog", !.customWriter = "writer",
              !.customProgress = "progress", !.interactshClient = "interactsh",
              !.hostErrCache = "hostErrCache", !.rc = "reporting",
              !.rateLimiter = "engineLimiter", !.engine = <<BaseAddr, "engine">>]

\* frame of an ExecuteNucleiWithOpts call that has not started
IdleFrame ==
    [pc |-> "idle", targets |-> <<>>, opts |-> <<>>, unsafe |-> FALSE, applied |-> 0, optErr |-> Nil,
     tmpOpts |-> Nil, tmpMode |-> Nil, own |-> NilStruct,
     ephemeral |-> FALSE, executerOpts |-> NilStruct, ephEngine |-> NoEngine,
     wfLoader |-> FALSE, store |-> FALSE,
     loads |-> 0, templates |-> 0, workflows |-> 0,
     inputs |-> <<>>, sets |-> 0, engine |-> NoEngine, started |-> FALSE,
     scanRet |-> Nil, itemFailed |-> FALSE, inflight |-> {}, scanned |-> {}, ret |-> "none"]

\* whether the list of option functions fs holds a non-thread-safe option
HasGlobal(fs) == \E k \in 1..Len(fs) : fs[k].kind = "global"

Init ==
    /\ ctor \in [pc : {"apply"}, opts : SeqsUpTo(OptionFns, MaxOpts), k : {1},
                 applied : {<<>>}, initRan : {FALSE}, retEng : {Nil}, retErr : {Nil}]
    /\ eng = EngineLiteral
    /\ \E d \in OptionsValues :
          optsHeap = [a \in Addrs |-> IF a = BaseAddr THEN d ELSE NilStruct]
    /\ inv = [i \in Invocations |-> IdleFrame]
    /\ output = {}
    /\ cbArgs = <<>>
    /\ srv = NewServer

(* ------------------- NewThreadSafeNucleiEngine ------------------------ *)

\* the constructor's loop going on after an error
CtorAbortsOn_Ignored(err) == FALSE

\* what the constructor does with the error of one option function (lines 72-74)
CtorAbortsOn(err) == err # Nil

\* lines 71-75: one turn of the loop over the option functions
CtorApplyOption ==
    /\ ctor.pc = "apply"
    /\ ctor.k <= Len(ctor.opts)
    /\ LET f == ctor.opts[ctor.k]
           err == OptionErr(f, eng.mode)
       IN /\ optsHeap' = [optsHeap EXCEPT ![eng.opts] = OptionEffect(f, eng.mode, @)]
          /\ IF CtorAbortsOn(err)
             THEN ctor' = [ctor EXCEPT !.applied = Append(@, ctor.k),
                                       !.pc = "returned", !.retErr = err, !.retEng = Nil]
             ELSE ctor' = [ctor EXCEPT !.applied = Append(@, ctor.k), !.k = @ + 1]
    /\ UNCHANGED <<cbArgs, srv, eng, inv, output>>

\* lines 76-79: e.init() after the loop; it may fail
CtorInit ==
    /\ ctor.pc = "apply"
    /\ ctor.k > Len(ctor.opts)
    /\ \E ok \in BOOLEAN :
          IF ok
          THEN /\ eng' = InitEngine(eng)
               /\ ctor' = [ctor EXCEPT !.initRan = TRUE, !.pc = "returned",
                                       !.retEng = "engine", !.retErr = Nil]
          ELSE /\ eng' = eng
               /\ ctor' = [ctor EXCEPT !.initRan = TRUE, !.pc = "returned",
                                       !.retEng = Nil, !.retErr = "ErrInit"]
    /\ UNCHANGED <<cbArgs, srv, optsHeap, inv, output>>

\* the constructor's frame once the engine it returned is in use
ServingFrame ==
    [pc |-> "serving", opts |-> <<>>, k |-> 1, applied |-> <<>>,
     initRan |-> TRUE, retEng |-> "engine", retErr |-> Nil]

\* the caller takes the returned *ThreadSafeNucleiEngine into use; the
\* constructor's frame (its opts slice and loop position) is gone
CtorHandOver ==
    /\ ctor.pc = "returned"
    /\ ctor.retEng # Nil
    /\ ctor' = ServingFrame
    /\ UNCHANGED <<cbArgs, srv, eng, optsHeap, inv, output>>

(* ------------------------ GlobalResultCallback ------------------------ *)

\* the callbacks a caller registers
Callbacks == {"cb1", "cb2"}

\* the callback added to those already registered
SetCallbacks_Append(cbs, callback) == Append(cbs, callback)

\* line 90: the list assigned to e.eng.resultCallbacks
SetCallbacks(cbs, callback) == <<callback>>

\* lines 88-91: GlobalResultCallback(callback) on the engine in use
GlobalResultCallback(callback) ==
    /\ ctor.pc = "serving"
    /\ Len(cbArgs) < MaxCallbackCalls
    /\ eng' = [eng EXCEPT !.resultCallbacks = SetCallbacks(@, callback)]
    /\ cbArgs' = Append(cbArgs, callback)
    /\ UNCHANGED <<ctor, optsHeap, inv, output, srv>>

(* ---------------------- createEphemeralObjects ------------------------ *)

\* the per-second quota looked at before the per-minute one
NewRateLimiter_SecondFirst(o, i) ==
    IF o.RateLimit > 0
    THEN [window |-> "second", quota |-> o.RateLimit, id |-> i]
    ELSE IF o.RateLimitMinute > 0
    THEN [window |-> "minute", quota |-> o.RateLimitMinute, id |-> i]
    ELSE [window |-> "unlimited", quota |-> 0, id |-> i]

\* lines 44-50: the rate limiter chosen from the invocation's options; a new
\* instance, named by the invocation that allocated it
NewRateLimiter(o, i) ==
    IF o.RateLimitMinute > 0
    THEN [window |-> "minute", quota |-> o.RateLimitMinute, id |-> i]
    ELSE IF o.RateLimit > 0
    THEN [window |-> "second", quota |-> o.RateLimit, id |-> i]
    ELSE [window |-> "unlimited", quota |-> 0, id |-> i]

\* lines 32-50: the executor options built from the base engine's handles and opts
ExecuterOpts(base, optsAddr, i) ==
    [Output |-> base.customWriter, Options |-> optsAddr, Progress |-> base.customProgress,
     Catalog |-> base.catalog, IssuesClient |-> base.rc,
     RateLimiter |-> NewRateLimiter(optsHeap[optsAddr], i),
     Interactsh |-> base.interactshClient, HostErrorsCache |-> base.hostErrCache,
     WorkflowLoader |-> NoLoader]

(* ----------------------- ExecuteNucleiWithOpts ------------------------ *)

\* the temporary engine pointing at the shared options instead of a copy
TmpOptsAddr_Shared(i) == BaseAddr

\* line 98: baseOpts := *e.eng.opts is a new options value; its address
TmpOptsAddr(i) == i

\* the temporary engine left in the zero mode
TmpEngineMode_Default == "singleInstance"

\* line 99: the mode of the temporary engine the option functions run on
TmpEngineMode == "threadSafe"

\* base options with the option functions fs applied in order, up to the first error
RECURSIVE ApplyAll(_, _, _)
ApplyAll(fs, mode, o) ==
    IF fs = <<>> \/ OptionErr(Head(fs), mode) # Nil THEN o
    ELSE ApplyAll(Tail(fs), mode, OptionEffect(Head(fs), mode, o))

\* lines 97-99: the call starts with its arguments, a targets slice out of
\* targetLists and option functions out of optLists: options copied by value,
\* temporary engine made
Call(i, targetLists, optLists) ==
    /\ ctor.pc = "serving"
    /\ inv[i].pc = "idle"
    /\ \E targets \in targetLists, fs \in optLists :
          /\ optsHeap' = [optsHeap EXCEPT ![TmpOptsAddr(i)] = optsHeap[eng.opts]]
          /\ inv' = [inv EXCEPT ![i] =
                [@ EXCEPT !.pc = "apply", !.targets = targets, !.opts = fs, !.unsafe = HasGlobal(fs),
                          !.tmpOpts = TmpOptsAddr(i), !.tmpMode = TmpEngineMode,
                          !.own = ApplyAll(fs, "threadSafe", optsHeap[eng.opts])]]
    /\ UNCHANGED <<cbArgs, srv, ctor, eng, output>>

\* the loop going on after an error
CallAbortsOn_Ignored(err) == FALSE

\* what the call does with the error of one option function (lines 101-103)
CallAbortsOn(err) == err # Nil

\* lines 100-104: one turn of the loop over the option functions
ApplyOption(i) ==
    /\ inv[i].pc = "apply"
    /\ inv[i].opts # <<>>
    /\ LET f == Head(inv[i].opts)
           err == OptionErr(f, inv[i].tmpMode)
       IN /\ optsHeap' = [optsHeap EXCEPT ![inv[i].tmpOpts] = OptionEffect(f, inv[i].tmpMode, @)]
          /\ IF CallAbortsOn(err)
             THEN inv' = [inv EXCEPT ![i] = [@ EXCEPT !.applied = @ + 1, !.opts = <<>>,
                                                    !.optErr = err,
                                                    !.pc = "returned", !.ret = err]]
             ELSE inv' = [inv EXCEPT ![i] =
                     [@ EXCEPT !.applied = @ + 1, !.opts = Tail(@),
                               !.optErr = IF @ = Nil THEN err ELSE @]]
    /\ UNCHANGED <<cbArgs, srv, ctor, eng, output>>

\* lines 106-109 (createEphemeralObjects, lines 30-54): never fails
CreateEphemeral(i) ==
    /\ inv[i].pc = "apply"
    /\ inv[i].opts = <<>>
    /\ inv' = [inv EXCEPT ![i] =
          [@ EXCEPT !.pc = "wfloader", !.ephemeral = TRUE,
                    !.executerOpts = ExecuterOpts(eng, inv[i].tmpOpts, i),
                    !.ephEngine = <<i, "ephemeral">>]]
    /\ UNCHANGED <<cbArgs, srv, ctor, eng, optsHeap, output>>

\* lines 112-116: parsers.NewLoader; it may fail
NewWorkflowLoader(i) ==
    /\ inv[i].pc = "wfloader"
    /\ \E ok \in BOOLEAN :
          inv' = [inv EXCEPT ![i] =
             IF ok
             THEN [@ EXCEPT !.pc = "store", !.wfLoader = TRUE,
                            !.executerOpts = [@ EXCEPT !.WorkflowLoader = <<i, "wfloader">>]]
             ELSE [@ EXCEPT !.pc = "returned", !.wfLoader = TRUE,
                            !.ret = "ErrWorkflowLoader"]]
    /\ UNCHANGED <<cbArgs, srv, ctor, eng, optsHeap, output>>

\* a failed loader.New tried again instead of returned
NewStoreAndLoad_Retry(i, templateCounts, workflowCounts) ==
    /\ inv[i].pc = "store"
    /\ \/ inv' = [inv EXCEPT ![i] = [@ EXCEPT !.store = TRUE]]
       \/ \E nt \in templateCounts, nw \in workflowCounts :
             inv' = [inv EXCEPT ![i] = [@ EXCEPT !.pc = "targets", !.store = TRUE,
                                                 !.loads = @ + 1,
                                                 !.templates = nt, !.workflows = nw]]
    /\ UNCHANGED <<cbArgs, srv, ctor, eng, optsHeap, output>>

\* lines 118-122: loader.New, which may fail, then store.Load(); the loader
\* resolves some number of templates and of workflows
NewStoreAndLoad(i, templateCounts, workflowCounts) ==
    /\ inv[i].pc = "store"
    /\ \/ inv' = [inv EXCEPT ![i] = [@ EXCEPT !.pc = "returned", !.store = TRUE,
                                               !.ret = "ErrLoaderClient"]]
       \/ \E nt \in templateCounts, nw \in workflowCounts :
             inv' = [inv EXCEPT ![i] = [@ EXCEPT !.pc = "targets", !.store = TRUE,
                                                 !.loads = @ + 1,
                                                 !.templates = nt, !.workflows = nw]]
    /\ UNCHANGED <<cbArgs, srv, ctor, eng, optsHeap, output>>

\* inputs.SimpleInputProvider.Set: one more input, duplicates kept
ProviderSet(inputs, target) == Append(inputs, target)

RECURSIVE SetAll(_, _)
SetAll(inputs, targets) ==
    IF targets = <<>> THEN inputs
    ELSE SetAll(ProviderSet(inputs, Head(targets)), Tail(targets))

\* lines 124-131: a new input provider, one Set per target
LoadTargets(i) ==
    /\ inv[i].pc = "targets"
    /\ inv' = [inv EXCEPT ![i] = [@ EXCEPT !.pc = "validate",
                                           !.inputs = SetAll(<<>>, inv[i].targets),
                                           !.sets = Len(inv[i].targets)]]
    /\ UNCHANGED <<cbArgs, srv, ctor, eng, optsHeap, output>>

\* the two checks in the other order
ValidationError_TargetsFirst(nTemplates, nWorkflows, count) ==
    IF count = 0 THEN "ErrNoTargetsAvailable"
    ELSE IF nTemplates = 0 /\ nWorkflows = 0 THEN "ErrNoTemplatesAvailable"
    ELSE Nil

\* the target check alone
ValidationError_NoTemplateCheck(nTemplates, nWorkflows, count) ==
    IF count = 0 THEN "ErrNoTargetsAvailable" ELSE Nil

\* lines 133-138: the error the two emptiness checks give, Nil when both pass
ValidationError(nTemplates, nWorkflows, count) ==
    IF nTemplates = 0 /\ nWorkflows = 0 THEN "ErrNoTemplatesAvailable"
    ELSE IF count = 0 THEN "ErrNoTargetsAvailable"
    ELSE Nil

Validate(i) ==
    /\ inv[i].pc = "validate"
    /\ LET err == ValidationError(inv[i].templates, inv[i].workflows, Len(inv[i].inputs))
       IN inv' = [inv EXCEPT ![i] =
             IF err # Nil THEN [@ EXCEPT !.pc = "returned", !.ret = err]
             ELSE [@ EXCEPT !.pc = "scan"]]
    /\ UNCHANGED <<cbArgs, srv, ctor, eng, optsHeap, output>>

\* one input provider kept on the engine and filled by every invocation
RECURSIVE AllInputs(_)
AllInputs(S) ==
    IF S = {} THEN <<>>
    ELSE LET j == CHOOSE x \in S : TRUE IN inv[j].inputs \o AllInputs(S \ {j})

ScanProvider_Shared(i) == AllInputs(Invocations)

\* line 143: the input provider handed to ExecuteScanWithOpts
ScanProvider(i) == inv[i].inputs

\* the resolved workflows handed to the executor along with the templates
ScanTemplates_WithWorkflows(i) == inv[i].templates + inv[i].workflows

\* line 143: the templates handed to ExecuteScanWithOpts: store.Templates() only
ScanTemplates(i) == inv[i].templates

\* the work items the executor spawns: one per template and input
WorkItems(nTemplates, inputs) ==
    {[tpl |-> t, idx |-> n, target |-> inputs[n]] : t \in 1..nTemplates, n \in 1..Len(inputs)}

\* the scan run on the executor the shared engine holds
CoreNew_Shared(i) == eng.engine

\* line 140: engine := core.New(tmpEngine.opts) is a new executor of the call
CoreNew(i) == <<i, "engine">>

\* lines 140-143: a new core engine is made and its scan started
ExecuteScan(i) ==
    /\ inv[i].pc = "scan"
    /\ inv' = [inv EXCEPT ![i] =
          [@ EXCEPT !.pc = "wait", !.engine = CoreNew(i), !.started = TRUE,
                    !.inflight = WorkItems(ScanTemplates(i), ScanProvider(i))]]
    /\ UNCHANGED <<cbArgs, srv, ctor, eng, optsHeap, output>>

\* one work item of invocation i's work pool completes: a match is written to
\* the shared output, a failure is only noted, nothing is returned to the caller
WorkItemDone(i) ==
    /\ \E w \in inv[i].inflight, outcome \in {"match", "nomatch", "error"} :
          /\ inv' = [inv EXCEPT ![i] =
                [@ EXCEPT !.inflight = @ \ {w}, !.scanned = @ \cup {w.target},
                          !.itemFailed = @ \/ outcome = "error"]]
          /\ output' = IF outcome = "match"
                       THEN output \cup {[by |-> i, target |-> w.target]}
                       ELSE output
    /\ UNCHANGED <<cbArgs, srv, ctor, eng, optsHeap>>

\* the call going on without waiting
WorkPoolWait_Skipped(i) == TRUE

\* one work pool for the whole engine: the call waits for every caller's items
WorkPoolWait_AllPools(i) == \A j \in Invocations : inv[j].inflight = {}

\* line 145: engine.WorkPool().Wait() lets the call go on once the pool is empty
WorkPoolWait(i) == inv[i].inflight = {}

\* the scan's report handed back to the caller
ReturnAfterScan_Propagate(scanRet, itemFailed) ==
    IF scanRet = "err" \/ itemFailed THEN "ErrScan" ELSE Nil

\* lines 143-146: the value returned after the scan
ReturnAfterScan(scanRet, itemFailed) == Nil

\* lines 143-146: whatever ExecuteScanWithOpts reported is dropped, the call
\* waits for its work pool and returns
WaitAndReturn(i) ==
    /\ inv[i].pc = "wait"
    /\ WorkPoolWait(i)
    /\ \E r \in {"ok", "err"} :
          inv' = [inv EXCEPT ![i] =
             [@ EXCEPT !.pc = "returned", !.scanRet = r,
                       !.ret = ReturnAfterScan(r, inv[i].itemFailed)]]
    /\ UNCHANGED <<cbArgs, srv, ctor, eng, optsHeap, output>>

\* the steps of a call that take nothing from outside
Proceed(i) ==
    \/ ApplyOption(i) \/ CreateEphemeral(i) \/ NewWorkflowLoader(i)
    \/ LoadTargets(i) \/ Validate(i) \/ ExecuteScan(i) \/ WaitAndReturn(i)

Construct == CtorApplyOption \/ CtorInit \/ CtorHandOver

(* ---- concurrent callers, each with at most one target and one option --- *)

AtMostOne == {0, 1}
ShortLists(S) == {<<>>} \cup {<<x>> : x \in S}

Next ==
    \/ Construct
    \/ \E i \in Invocations : Call(i, ShortLists(Targets), ShortLists(OptionFns))
    \/ \E i \in Invocations : NewStoreAndLoad(i, AtMostOne, AtMostOne)
    \/ \E i \in Invocations : Proceed(i)
    \/ \E i \in Invocations : WorkItemDone(i)

Spec == Init /\ [][Next]_vars

(* ------------- one caller, arguments up to the model's bounds ----------- *)

Caller == "I1"

NextOne ==
    \/ Construct
    \/ Call(Caller, SeqsUpTo(Targets, MaxTargets), SeqsUpTo(OptionFns, MaxCallOpts))
    \/ NewStoreAndLoad(Caller, 0..MaxTemplates, 0..MaxWorkflows)
    \/ Proceed(Caller)
    \/ WorkItemDone(Caller)

SpecOne == Init /\ [][NextOne]_vars

(* --- concurrent callers; the caller under watch is scheduled fairly ---- *)

\* an engine in use that was constructed with no option function, its default
\* options setting no rate limit
InitServing ==
    /\ ctor = ServingFrame
    /\ eng = InitEngine(EngineLiteral)
    /\ optsHeap = [a \in Addrs |->
                     IF a = BaseAddr THEN [RateLimit |-> 0, RateLimitMinute |-> 0]
                     ELSE NilStruct]
    /\ inv = [i \in Invocations |-> IdleFrame]
    /\ output = {}
    /\ cbArgs = <<>>
    /\ srv = NewServer

NextServing ==
    \/ \E i \in Invocations : Call(i, ShortLists(Targets), ShortLists(OptionFns))
    \/ \E i \in Invocations : NewStoreAndLoad(i, AtMostOne, AtMostOne)
    \/ \E i \in Invocations : Proceed(i)
    \/ \E i \in Invocations : WorkItemDone(i)

\* the goroutine running Caller's call keeps being scheduled and the work
\* items of Caller's own executor keep completing; nothing is assumed of the
\* other callers, which may stall at any point
SpecLive ==
    /\ InitServing /\ [][NextServing]_vars
    /\ WF_vars(Proceed(Caller))
    /\ WF_vars(NewStoreAndLoad(Caller, AtMostOne, AtMostOne))
    /\ WF_vars(WorkItemDone(Caller))

(* ------ the engine is constructed, then its callback is registered ----- *)

NextSetup ==
    \/ Construct
    \/ \E callback \in Callbacks : GlobalResultCallback(callback)

SpecSetup == Init /\ [][NextSetup]_vars

(* ------------------ Server.AddScan (package handlers) ------------------ *)

\* the decoded bodies of /scans addition requests: the run-now flag and targets
AddScanRequests == [RunNow : BOOLEAN, Targets : ShortLists(Targets)]

\* the zero AddScanRequest of line 183
ZeroRequest == [RunNow |-> FALSE, Targets |-> <<>>]

\* scans.CalculateTargetCount: the number of hosts the targets stand for
CalculateTargetCount(targets) == Len(targets)

\* s.db.Queries().AddScan: inserts a row and returns its id, or fails and
\* returns the zero id with the error
DbAddScan(rows, params, inserted) ==
    IF inserted
    THEN [rows |-> Append(rows, [ID |-> Len(rows) + 1] @@ params),
          id |-> Len(rows) + 1, err |-> Nil]
    ELSE [rows |-> rows, id |-> 0, err |-> "ErrInsert"]

\* the scan queued only when its row was inserted
ShouldQueue_IfInserted(req, err) == req.RunNow /\ err = Nil

\* line 207: whether the scan is handed to the scan service
ShouldQueue(req, err) == req.RunNow

\* lines 182-218: one /scans addition request handled from decoding to return;
\* the body may fail to decode and the insert may fail
AddScan ==
    /\ Len(srv.handled) < MaxRequests
    /\ \E decoded \in BOOLEAN, body \in AddScanRequests, inserted \in BOOLEAN :
          IF ~decoded
          THEN srv' = [srv EXCEPT !.handled =
                          Append(@, [decoded |-> FALSE, req |-> ZeroRequest, id |-> 0,
                                     err |-> Nil, ret |-> "ErrDecode"])]
          ELSE LET req == body
                   db == DbAddScan(srv.rows,
                                   [Status |-> "scheduled",
                                    Hosts |-> CalculateTargetCount(req.Targets),
                                    Targets |-> req.Targets, Runnow |-> req.RunNow],
                                   inserted)
               IN srv' = [rows |-> db.rows,
                          queue |-> IF ShouldQueue(req, db.err)
                                    THEN Append(srv.queue,
                                                [ScanID |-> db.id, Targets |-> req.Targets,
                                                 RunNow |-> req.RunNow])
                                    ELSE srv.queue,
                          handled |-> Append(srv.handled,
                                             [decoded |-> TRUE, req |-> req, id |-> db.id,
                                              err |-> db.err, ret |-> db.err])]
    /\ UNCHANGED <<ctor, eng, optsHeap, inv, output, cbArgs>>

NextServer == AddScan

SpecServer == InitServing /\ [][NextServer]_vars

(* ------------------------------ properties ---------------------------- *)

Range(q) == {q[k] : k \in 1..Len(q)}

Returned(i) == inv[i].pc = "returned"

\* option application and both loader constructions went through
Loaded(i) == inv[i].loads = 1

IsError(r) == r \notin {"none", Nil}

\* C1 as stated: a call with an empty targets slice whose options applied and
\* whose loaders were built returns ErrNoTargetsAvailable whatever the number
\* of resolved templates and workflows, zero of both included.
C1_EmptyTargetsAlwaysNoTargets ==
    \A i \in Invocations :
        (Returned(i) /\ Loaded(i) /\ inv[i].targets = <<>>)
            => inv[i].ret = "ErrNoTargetsAvailable"

\* C1 amended: such a call returns ErrNoTargetsAvailable when at least one
\* template or workflow was resolved, and ErrNoTemplatesAvailable when none
\* was, the template check coming first.
C1_EmptyTargets ==
    \A i \in Invocations :
        (Returned(i) /\ Loaded(i) /\ inv[i].targets = <<>>)
            => inv[i].ret = IF inv[i].templates = 0 /\ inv[i].workflows = 0
                            THEN "ErrNoTemplatesAvailable"
                            ELSE "ErrNoTargetsAvailable"

C1_Witness ==
    \E i \in Invocations :
        /\ Returned(i) /\ Loaded(i) /\ inv[i].targets = <<>>
        /\ inv[i].templates > 0
        /\ inv[i].ret = "ErrNoTargetsAvailable"

\* C2: a call with a non-empty targets slice for which zero templates and zero
\* workflows were resolved never starts the scan executor and returns
\* ErrNoTemplatesAvailable.
C2_NoTemplates ==
    \A i \in Invocations :
        (Loaded(i) /\ inv[i].targets # <<>> /\ inv[i].templates = 0 /\ inv[i].workflows = 0)
            => /\ ~inv[i].started
               /\ inv[i].engine = NoEngine
               /\ inv[i].inflight = {}
               /\ inv[i].pc \in {"targets", "validate", "returned"}
               /\ Returned(i) => inv[i].ret = "ErrNoTemplatesAvailable"

C2_Witness ==
    \E i \in Invocations :
        /\ Returned(i) /\ Loaded(i) /\ Len(inv[i].targets) = MaxTargets
        /\ inv[i].templates = 0 /\ inv[i].workflows = 0
        /\ inv[i].ret = "ErrNoTemplatesAvailable"

\* the call is past its option loop, all option functions applied without error
Configured(i) == inv[i].ephemeral

\* C3: in every interleaving of concurrent calls, the options a call works
\* with once its option functions ran, and the rate limiter built from them,
\* are the base options plus that call's own option functions: no option
\* function of another call shows in them.
C3_Isolation ==
    \A i \in Invocations :
        Configured(i)
            => /\ inv[i].tmpOpts # eng.opts
               /\ \A j \in Invocations \ {i} : inv[j].tmpOpts # inv[i].tmpOpts
               /\ optsHeap[inv[i].tmpOpts] = inv[i].own
               /\ inv[i].executerOpts.Options = inv[i].tmpOpts
               /\ inv[i].executerOpts.RateLimiter = NewRateLimiter(inv[i].own, i)

\* two calls in flight together, each having set a different quota
C3_Witness ==
    \E i, j \in Invocations :
        /\ i # j
        /\ inv[i].pc = "wait" /\ inv[j].pc = "wait"
        /\ inv[i].applied = 1 /\ inv[j].applied = 1
        /\ inv[i].executerOpts.RateLimiter.window = "second"
        /\ inv[j].executerOpts.RateLimiter.window = "minute"
        /\ optsHeap[inv[i].tmpOpts] # optsHeap[inv[j].tmpOpts]

\* C4: a call in which an option function failed, a loader could not be
\* built, nothing was resolved or no target was given returns that error and
\* never starts the executor or scans a target; a failed option function
\* also means no loader was built, nothing loaded and no target added.
C4_StructuralFailures ==
    \A i \in Invocations :
        /\ IsError(inv[i].ret)
              => /\ Returned(i) /\ ~inv[i].started /\ inv[i].engine = NoEngine
                 /\ inv[i].inflight = {} /\ inv[i].scanned = {}
                 /\ \A r \in output : r.by # i
        /\ inv[i].started
              => /\ inv[i].optErr = Nil /\ Loaded(i)
                 /\ inv[i].templates + inv[i].workflows > 0
                 /\ Len(inv[i].inputs) > 0
        /\ inv[i].optErr # Nil
              => /\ Returned(i) /\ inv[i].ret = inv[i].optErr
                 /\ ~inv[i].ephemeral /\ ~inv[i].wfLoader /\ ~inv[i].store
                 /\ inv[i].loads = 0
                 /\ inv[i].sets = 0 /\ inv[i].inputs = <<>>
        /\ (Returned(i) /\ inv[i].wfLoader /\ ~inv[i].store)
              => inv[i].ret = "ErrWorkflowLoader"
        /\ (Returned(i) /\ inv[i].store /\ ~Loaded(i))
              => inv[i].ret = "ErrLoaderClient"
        /\ (Returned(i) /\ Loaded(i)
               /\ (inv[i].templates + inv[i].workflows = 0 \/ inv[i].targets = <<>>))
              => IsError(inv[i].ret)

\* a call given targets whose second option function failed after the first
\* had been applied
C4_Witness ==
    \E i \in Invocations :
        /\ Returned(i) /\ inv[i].optErr = "ErrOption" /\ inv[i].applied = 2
        /\ inv[i].targets # <<>>
        /\ inv[i].ret = "ErrOption"

\* C5: no call has returned nil while a work item it spawned is in flight.
C5_ReturnsAfterDrain ==
    \A i \in Invocations :
        (Returned(i) /\ inv[i].ret = Nil) => inv[i].inflight = {}

\* a call that spawned several work items has returned nil
C5_Witness ==
    \E i \in Invocations :
        /\ Returned(i) /\ inv[i].ret = Nil
        /\ inv[i].templates * Len(inv[i].inputs) >= 2
        /\ Cardinality(inv[i].scanned) >= 2

C7_ScanErrorsNotReturned ==
    \A i \in Invocations :
        (Returned(i) /\ inv[i].started) => inv[i].ret = Nil

C7_Witness ==
    \E i \in Invocations :
        /\ Returned(i) /\ inv[i].started
        /\ inv[i].scanRet = "err" /\ inv[i].itemFailed
        /\ inv[i].ret = Nil

\* C8: the temporary engine is always in threadSafe mode, and a call given a
\* non-thread-safe option is either still in its option loop or has returned
\* an error with no ephemeral object, loader or executor created.
C8_NonThreadSafeOptionRejected ==
    \A i \in Invocations :
        /\ inv[i].pc # "idle" => inv[i].tmpMode = "threadSafe"
        /\ inv[i].unsafe
              => \/ inv[i].pc = "apply" /\ inv[i].opts # <<>>
                 \/ /\ Returned(i) /\ IsError(inv[i].ret)
                    /\ ~inv[i].ephemeral /\ inv[i].ephEngine = NoEngine
                    /\ ~inv[i].wfLoader /\ ~inv[i].store /\ inv[i].engine = NoEngine
                    /\ ~inv[i].started

\* a call whose second option was the non-thread-safe one has returned its error
C8_Witness ==
    \E i \in Invocations :
        /\ Returned(i) /\ inv[i].unsafe /\ inv[i].applied = 2
        /\ inv[i].ret = "ErrOptionsNotSupported"

\* position of the first option function of fs that fails, Len(fs) + 1 if none does
FirstFailing(fs, mode) ==
    IF \E k \in 1..Len(fs) : OptionErr(fs[k], mode) # Nil
    THEN CHOOSE k \in 1..Len(fs) :
            /\ OptionErr(fs[k], mode) # Nil
            /\ \A m \in 1..(k - 1) : OptionErr(fs[m], mode) = Nil
    ELSE Len(fs) + 1

\* C9: the constructor applies its option functions in the order given; at the
\* first that fails it returns that error and no engine, having applied no
\* later function and not run init; if init fails it returns that error and
\* no engine; no call is served by an engine whose construction failed.
C9_ConstructorFailFast ==
    /\ \A k \in 1..Len(ctor.applied) : ctor.applied[k] = k
    /\ ctor.retErr # Nil => ctor.retEng = Nil
    /\ ctor.pc = "returned"
          => LET n == Len(ctor.opts)
                 e == FirstFailing(ctor.opts, "threadSafe")
             IN IF e <= n
                THEN /\ Len(ctor.applied) = e
                     /\ ctor.retErr = OptionErr(ctor.opts[e], "threadSafe")
                     /\ ctor.retEng = Nil
                     /\ ~ctor.initRan
                     /\ eng.catalog = Nil
                ELSE /\ Len(ctor.applied) = n
                     /\ ctor.initRan
                     /\ \/ ctor.retErr = Nil /\ ctor.retEng # Nil
                        \/ ctor.retErr = "ErrInit" /\ ctor.retEng = Nil
    /\ \A i \in Invocations :
          inv[i].pc # "idle" => ctor.pc = "serving" /\ ctor.retErr = Nil /\ ctor.initRan

\* the constructor returned the error of its first option function, the
\* second never applied
C9_Witness ==
    /\ ctor.pc = "returned"
    /\ Len(ctor.opts) = 2 /\ ctor.applied = <<1>>
    /\ ctor.retErr # Nil /\ ctor.retEng = Nil /\ ~ctor.initRan

\* C10: no step of any call changes the shared engine: its options value, its
\* catalog and handles, its result callbacks and its mode stay as they were.
C10_SharedContextUnchanged ==
    [][inv' # inv => (eng' = eng /\ optsHeap'[eng.opts] = optsHeap[eng.opts])]_vars

\* a call has changed its own copy of the options, and another has failed
C10_Witness ==
    \E i, j \in Invocations :
        /\ Configured(i) /\ optsHeap[inv[i].tmpOpts] # optsHeap[eng.opts]
        /\ Returned(j) /\ IsError(inv[j].ret)

\* C11: the wait is scoped to the invocation: a call waiting with all of its
\* own work items completed can return at once, whatever is still in flight in
\* the work pools of the other calls.
C11_WaitIsInvocationScoped ==
    \A i \in Invocations :
        (inv[i].pc = "wait" /\ inv[i].inflight = {}) => ENABLED WaitAndReturn(i)

C11_Witness ==
    \E i, j \in Invocations :
        /\ i # j
        /\ Returned(i) /\ inv[i].ret = Nil /\ inv[i].scanned # {}
        /\ inv[j].pc = "wait" /\ inv[j].inflight # {} /\ inv[j].scanned = {}

\* C12: the limiter in a call's executor options follows the precedence
\* RateLimitMinute > 0, else RateLimit > 0, else unlimited, read from the
\* call's own options; it is an instance allocated by that call, so it is
\* neither the engine's limiter nor the limiter of another call.
C12_RateLimiterPrecedence ==
    \A i \in Invocations :
        Configured(i) =>
            LET o == optsHeap[inv[i].tmpOpts]
                l == inv[i].executerOpts.RateLimiter
            IN /\ o.RateLimitMinute > 0
                     => (l.window = "minute" /\ l.quota = o.RateLimitMinute)
               /\ (o.RateLimitMinute = 0 /\ o.RateLimit > 0)
                     => (l.window = "second" /\ l.quota = o.RateLimit)
               /\ (o.RateLimitMinute = 0 /\ o.RateLimit = 0)
                     => l.window = "unlimited"
               /\ l.id = i
               /\ \A j \in Invocations \ {i} :
                     Configured(j) => inv[j].executerOpts.RateLimiter # l

C12_Witness ==
    \E i, j \in Invocations :
        /\ i # j /\ Configured(i) /\ Configured(j)
        /\ optsHeap[inv[i].tmpOpts].RateLimitMinute > 0
        /\ optsHeap[inv[i].tmpOpts].RateLimit > 0
        /\ inv[i].executerOpts.RateLimiter.window = "minute"
        /\ inv[j].executerOpts.RateLimiter.window = "second"
        /\ eng.rateLimiter = "engineLimiter"

\* the phase of spec 4.5's state machine a frame is in
PhaseOf(f) ==
    CASE f.pc = "idle" -> "Idle"
      [] f.pc = "apply" -> "Configuring"
      [] f.pc \in {"wfloader", "store"} -> "Loading"
      [] f.pc \in {"targets", "validate"} -> "Validating"
      [] f.pc = "scan" -> "Executing"
      [] f.pc = "wait" -> "Draining"
      [] f.pc = "returned" /\ f.ret = Nil -> "Done"
      [] OTHER -> "Failed"

PhaseRank(p) ==
    CASE p = "Idle" -> 0
      [] p = "Configuring" -> 1
      [] p = "Loading" -> 2
      [] p = "Validating" -> 3
      [] p = "Executing" -> 4
      [] p = "Draining" -> 5
      [] OTHER -> 6

\* C13: every step of a call keeps its phase or moves it to the next one of
\* Configuring, Loading, Validating, Executing, Draining, Done; Failed is
\* entered only from Configuring, Loading or Validating, by the step that
\* meets the call's first error; Done and Failed are never left.
C13_PhasesOnlyForward ==
    [][\A i \in Invocations :
          LET p == PhaseOf(inv[i])
              q == PhaseOf(inv'[i])
          IN /\ p \in {"Done", "Failed"} => inv'[i] = inv[i]
             /\ (q # p /\ q # "Failed") => PhaseRank(q) = PhaseRank(p) + 1
             /\ (q # p /\ q = "Failed")
                   => /\ p \in {"Configuring", "Loading", "Validating"}
                      /\ inv[i].ret = "none" /\ inv[i].optErr = Nil
                      /\ IsError(inv'[i].ret)]_vars

C13_Witness ==
    \E i \in Invocations :
        /\ PhaseOf(inv[i]) = "Failed" /\ inv[i].ret = "ErrNoTargetsAvailable"
        /\ inv[i].wfLoader /\ Loaded(i) /\ inv[i].workflows > 0

\* C14: the executor a call scans with was made in that call and is bound to
\* the call's own execution options; it is not the executor held by the shared
\* engine, and no two calls hold the same executor, hence the same work pool.
C14_FreshExecutor ==
    \A i \in Invocations :
        inv[i].started =>
            /\ inv[i].engine # NoEngine
            /\ inv[i].engine # eng.engine
            /\ inv[i].engine[1] = i
            /\ Configured(i) /\ inv[i].executerOpts.Options = inv[i].tmpOpts
            /\ inv[i].tmpOpts # eng.opts
            /\ \A j \in Invocations \ {i} :
                  inv[j].started => inv[j].engine # inv[i].engine

C14_Witness ==
    /\ eng.engine # NoEngine
    /\ \A i \in Invocations :
          inv[i].started /\ inv[i].pc = "wait" /\ inv[i].inflight # {}

\* C15: the option functions of a call run one after the other, in the order
\* given, on the call's own copy of the options: while the loop runs, the copy
\* is what is left to reach the value the whole list gives up to its first
\* error; after an error the call has returned it with nothing more applied and
\* the earlier writes still on the copy; no step of the call writes any options
\* value but the call's copy, so the base options stay as they were.
C15_OptionsInOrderOnOwnCopy ==
    /\ [](\A i \in Invocations :
            /\ inv[i].pc = "apply"
                  => /\ inv[i].optErr = Nil
                     /\ inv[i].own = ApplyAll(inv[i].opts, inv[i].tmpMode,
                                               optsHeap[inv[i].tmpOpts])
            /\ inv[i].optErr # Nil
                  => /\ Returned(i) /\ inv[i].ret = inv[i].optErr
                     /\ inv[i].opts = <<>> /\ ~Configured(i)
                     /\ optsHeap[inv[i].tmpOpts] = inv[i].own
                     /\ inv[i].tmpOpts # eng.opts)
    /\ [][\A i \in Invocations :
            inv'[i] # inv[i]
                => \A a \in Addrs \ {inv'[i].tmpOpts} : optsHeap'[a] = optsHeap[a]]_vars

C15_Witness ==
    \E i \in Invocations :
        /\ Returned(i) /\ inv[i].optErr # Nil /\ inv[i].applied = MaxCallOpts
        /\ optsHeap[inv[i].tmpOpts] # optsHeap[eng.opts]

\* C17: the workflow loader and the template store are each constructed at
\* most once in a call and Load runs at most once: a call about to construct
\* one has not tried before; a failed construction is returned at once, with
\* no store built after a failed workflow loader, and with no Load, no target
\* set and no scan after either failure.
C17_LoadersNotRetried ==
    \A i \in Invocations :
        /\ inv[i].pc = "wfloader" => ~inv[i].wfLoader /\ ~inv[i].store
        /\ inv[i].pc = "store" => ~inv[i].store /\ inv[i].loads = 0
        /\ inv[i].loads <= 1
        /\ (inv[i].wfLoader /\ inv[i].pc # "store" /\ ~inv[i].store)
              => Returned(i) /\ inv[i].ret = "ErrWorkflowLoader"
        /\ (inv[i].store /\ inv[i].loads = 0)
              => Returned(i) /\ inv[i].ret = "ErrLoaderClient"
        /\ inv[i].ret \in {"ErrWorkflowLoader", "ErrLoaderClient"}
              => /\ inv[i].loads = 0 /\ inv[i].sets = 0 /\ inv[i].inputs = <<>>
                 /\ ~inv[i].started /\ inv[i].engine = NoEngine

C17_Witness ==
    \E i \in Invocations :
        /\ Returned(i) /\ inv[i].ret = "ErrLoaderClient"
        /\ inv[i].wfLoader /\ inv[i].store /\ Len(inv[i].targets) = MaxTargets

\* C18: a call that resolved no template but at least one workflow, with a
\* non-empty targets slice, passes validation; its scan is started with the
\* empty template list alone, so the executor gets no work item from the
\* workflows and writes no result, and the call returns nil.
C18_WorkflowsOnlyScansNothing ==
    \A i \in Invocations :
        (Loaded(i) /\ inv[i].templates = 0 /\ inv[i].workflows > 0
            /\ inv[i].targets # <<>>)
        => /\ inv[i].ret \in {"none", Nil}
           /\ inv[i].started
                 => /\ inv[i].inflight = {} /\ inv[i].scanned = {}
                    /\ \A r \in output : r.by # i
           /\ Returned(i) => inv[i].started /\ inv[i].ret = Nil

C18_Witness ==
    \E i \in Invocations :
        /\ Returned(i) /\ inv[i].ret = Nil /\ inv[i].started
        /\ inv[i].templates = 0 /\ inv[i].workflows = MaxWorkflows
        /\ Len(inv[i].inputs) = MaxTargets

\* C19: a call that has started eventually returns, given that it keeps being
\* scheduled and that the work items of its own executor complete, whatever
\* the other calls do, stalling for ever with work in flight included.
C19_EveryCallReturns == (inv[Caller].pc # "idle") ~> Returned(Caller)

C19_Witness ==
    \E j \in Invocations \ {Caller} :
        /\ Returned(Caller) /\ inv[Caller].ret = Nil /\ inv[Caller].scanned # {}
        /\ inv[j].pc = "wait" /\ inv[j].inflight # {}
        /\ inv[j].targets # inv[Caller].targets

\* C16: after any sequence of GlobalResultCallback calls the engine's callback
\* list holds exactly one function, the one passed to the latest call; the
\* callbacks of earlier calls are gone from it.
C16_CallbackReplaced ==
    cbArgs # <<>>
        => /\ Len(eng.resultCallbacks) = 1
           /\ eng.resultCallbacks[1] = cbArgs[Len(cbArgs)]

C16_Witness ==
    /\ Len(cbArgs) = MaxCallbackCalls
    /\ cbArgs[1] # cbArgs[Len(cbArgs)]
    /\ eng.resultCallbacks = <<cbArgs[Len(cbArgs)]>>

\* the requests handled so far that decoded with the run-now flag set
RunNowHandled == SelectSeq(srv.handled, LAMBDA h : h.decoded /\ h.req.RunNow)

\* C20: AddScan queues a scan exactly when the request's run-now flag is set,
\* whatever the insert gave: the queue holds one scan per decoded run-now
\* request, in order, under the id the insert returned, a failed insert
\* included; a request without the flag queues nothing; the handler returns
\* the insert's error.
C20_QueuedOnRunNowAlone ==
    /\ Len(srv.queue) = Len(RunNowHandled)
    /\ \A k \in 1..Len(srv.queue) :
          /\ srv.queue[k].ScanID = RunNowHandled[k].id
          /\ srv.queue[k].Targets = RunNowHandled[k].req.Targets
          /\ srv.queue[k].RunNow
    /\ \A k \in 1..Len(srv.handled) :
          srv.handled[k].decoded => srv.handled[k].ret = srv.handled[k].err

C20_Witness ==
    /\ Len(srv.handled) = MaxRequests
    /\ \E k \in 1..Len(srv.handled) :
          LET h == srv.handled[k]
          IN /\ h.decoded /\ h.req.RunNow /\ h.err = "ErrInsert" /\ h.ret = "ErrInsert"
             /\ \E q \in 1..Len(srv.queue) : srv.queue[q].ScanID = h.id
             /\ \A r \in 1..Len(srv.rows) : srv.rows[r].ID # h.id
    /\ \E k \in 1..Len(srv.handled) :
          LET h == srv.handled[k]
          IN h.decoded /\ ~h.req.RunNow /\ h.err = Nil
    /\ Len(srv.queue) = 1

====
